---- MODULE Spec2Model ----
(***************************************************************************)
(* The Task Execution Engine of superpilot: SuperTaskPilot                 *)
(* (superpilot/core/pilot/task/super.py).  One engine instance, one        *)
(* execute() run.  The asyncio event loop is modelled at its suspension    *)
(* points: a perform_ability coroutine is suspended in the model call      *)
(* (provider.create_language_completion) or in the ability body            *)
(* (ability_registry.perform); everything between two suspension points    *)
(* is one atomic step.                                                     *)
(***************************************************************************)
EXTENDS Integers, Sequences, FiniteSets, TLC

\* ------------------------------------------------------------- bounds
\* Largest ability registry explored.
MaxAbilities == 2
\* The loop of execute is cut after this many exec_abilities calls ...
MaxCycles == 4
\* ... and no further cycle is started once cycle_count has reached this.
MaxCycleCount == 4

\* ------------------------------------------------- program constants
\* default_configuration.pilot.max_task_cycle_count
max_task_cycle_count == 3

\* ExecutionNature
ExecutionNature == {"SEQUENTIAL", "PARALLEL", "AUTO", "SIMPLE"}

\* An ability name the model may answer with that no registry holds.
UnknownAbility == 0

\* The errors a model call can end with (raised out of
\* provider.create_language_completion, the parser included).
ModelErrors == {"ProviderError", "ResponseParseError"}

\* LanguageModelClassification
LanguageModelClassification == {"FAST_MODEL", "SMART_MODEL"}

\* The Context objects of a run: the one the engine creates in __init__,
\* the one owned by the task, and one the caller may pass to execute.
ContextIds == {"engine_ctx", "task_ctx", "caller_ctx"}

\* A freshly constructed context.
DefaultContext ==
    [cycle_count |-> 0, prior_actions |-> <<>>, memories |-> {},
     status |-> "PENDING", enough_info |-> FALSE]

\* A perform_ability coroutine that has not been created in this cycle.
IdleSlot ==
    [pc |-> "idle", schema |-> {}, next_ability |-> UnknownAbility, error |-> "none"]

VARIABLES
    execution_nature,   \* self._execution_nature
    models,             \* the classifications self._configuration.models has an entry for
    model_classification, \* self._prompt_strategy.model_classification
    ability_registry,   \* self._ability_registry.abilities(), registration order
    pc,                 \* where execute is: constructed, loop, exec, returned, raised
    current_task,       \* self._current_task: "None" or the task's reference
    current_context,    \* self._current_context: a reference to a Context
    heap,               \* the Context objects, by reference
    slots,              \* the perform_ability coroutines of the current cycle
    task_queue,         \* self._task_queue
    completed_tasks,    \* self._completed_tasks
    exception,          \* the error that left execute, or "none"
    returned,           \* the reference execute returned, or "none"
    cycles,             \* exec_abilities calls made by this run
    model_calls,        \* chat_with_model calls made by the current exec_abilities call
    invoked,            \* abilities handed to registry.perform by that call, in order
    started,            \* slots whose perform_ability was called in that call, in order
    prompt_site,        \* the code that built template variables, or "none"
    kwargs,             \* the keyword arguments its caller supplied
    template_kwargs,    \* the template variables it built from them
    simple_models,      \* SimpleTaskPilot: self._configuration.models
    simple_classification, \* SimpleTaskPilot: self._prompt_strategy.model_classification
    simple_pc,          \* where SimpleTaskPilot.execute is: constructed, awaiting, returned, raised
    completion_calls,   \* the create_language_completion calls of that execute, in order
    simple_result,      \* what SimpleTaskPilot.execute returned
    simple_exception,   \* the error that left SimpleTaskPilot.execute, or "none"
    configurations,     \* the TaskPilotConfiguration objects, by reference
    pilots              \* the pilots the factory calls have built, in order

vars == <<execution_nature, models, model_classification, ability_registry, pc, current_task, current_context,
          heap, slots, task_queue, completed_tasks, exception, returned,
          cycles, model_calls, invoked, started,
          prompt_site, kwargs, template_kwargs,
          simple_models, simple_classification, simple_pc, completion_calls,
          simple_result, simple_exception,
          configurations, pilots>>

\* The state of one SuperTaskPilot and of its execute.
engine_vars == <<execution_nature, models, model_classification, ability_registry, pc, current_task,
                 current_context, heap, slots, task_queue, completed_tasks,
                 exception, returned, cycles, model_calls, invoked, started>>

\* The construction of template variables.
prompt_vars == <<prompt_site, kwargs, template_kwargs>>

\* The state of one SimpleTaskPilot and of its execute.
simple_vars == <<simple_models, simple_classification, simple_pc, completion_calls,
                 simple_result, simple_exception>>

\* The configuration objects and the pilots built from them.
factory_vars == <<configurations, pilots>>

\* What no step of SuperTaskPilot.execute touches.
outside == <<prompt_vars, simple_vars, factory_vars>>

config == <<execution_nature, models, model_classification, ability_registry>>

\* ------------------------------------------------------------ helpers
NumAbilities == Len(ability_registry)

\* AbilityRegistry.dump_abilities(): the schema of every registered ability.
dump_abilities == {ability_registry[i] : i \in 1..Len(ability_registry)}

\* Python's != between two objects: values of different types are unequal.
PyNe(a, b) == a.type # b.type \/ a.value # b.value

\* The loop condition of execute: self._current_task != TaskStatus.DONE.
\* The left operand is the Task object itself, not its status.
LoopCondition(task) ==
    PyNe([type |-> "Task", value |-> task],
         [type |-> "TaskStatus", value |-> "DONE"])

\* The ability_schema argument exec_abilities passes to the i-th
\* perform_ability call.
SchemaFor(nature, i) ==
    IF nature = "AUTO" THEN dump_abilities ELSE {ability_registry[i]}

\* FirstSlots with AUTO treated like the loop over the abilities: no
\* perform_ability call when the registry is empty.
FirstSlotsAutoSkipsEmpty(nature) ==
    IF nature = "PARALLEL" THEN 1..NumAbilities
    ELSE IF NumAbilities >= 1 THEN {1} ELSE {}

\* The perform_ability calls exec_abilities makes before it first suspends.
FirstSlots(nature) ==
    IF nature = "PARALLEL" THEN 1..NumAbilities
    ELSE IF nature = "AUTO" THEN {1}
    ELSE IF NumAbilities >= 1 THEN {1} ELSE {}

\* NextSlot with the AUTO branch falling into the loop over the abilities.
NextSlotAutoLoops(nature, i) ==
    IF nature = "PARALLEL" THEN 0
    ELSE IF i < NumAbilities THEN i + 1 ELSE 0

\* The perform_ability call exec_abilities makes when the i-th one has
\* returned; 0 when there is none.
NextSlot(nature, i) ==
    IF nature \in {"PARALLEL", "AUTO"} THEN 0
    ELSE IF i < NumAbilities THEN i + 1 ELSE 0

\* AbilityRegistry.perform's lookup: whether the registry holds an ability
\* named a (it fails with an error when it holds none).
registry_has(a) == a \in dump_abilities

\* chat_with_model's lookup self._configuration.models[model_classification]
\* finds an entry.
models_has_classification == model_classification \in models

\* A coroutine whose chat_with_model call failed in that lookup, before
\* any suspension point.
UnconfiguredSlot(nature, i) ==
    [pc |-> "failed", schema |-> SchemaFor(nature, i),
     next_ability |-> UnknownAbility, error |-> "KeyError"]

\* A coroutine started at a suspension point in the model call.
StartedSlot(nature, i) ==
    [pc |-> "model", schema |-> SchemaFor(nature, i),
     next_ability |-> UnknownAbility, error |-> "none"]

Pending(s) == s.pc \in {"model", "ability"}

\* The AbilityAction registry.perform returns for ability a.
AbilityAction(a) == [ability_name |-> a, memories |-> {a}]

\* _update_tasks_and_memory without the increment of cycle_count.
update_skips_cycle_count(ctx, ability_result) ==
    [ctx EXCEPT !.prior_actions = Append(@, ability_result),
                !.status = "DONE",
                !.enough_info = TRUE,
                !.memories = ability_result.memories]

\* _update_tasks_and_memory inserting the action at the front.
update_prepends_action(ctx, ability_result) ==
    [ctx EXCEPT !.cycle_count = @ + 1,
                !.prior_actions = <<ability_result>> \o @,
                !.status = "DONE",
                !.enough_info = TRUE,
                !.memories = ability_result.memories]

\* _update_tasks_and_memory keeping the memories of earlier actions.
update_merges_memories(ctx, ability_result) ==
    [ctx EXCEPT !.cycle_count = @ + 1,
                !.prior_actions = Append(@, ability_result),
                !.status = "DONE",
                !.enough_info = TRUE,
                !.memories = @ \cup ability_result.memories]

\* _update_tasks_and_memory without the append to prior_actions.
update_skips_prior_action(ctx, ability_result) ==
    [ctx EXCEPT !.cycle_count = @ + 1,
                !.status = "DONE",
                !.enough_info = TRUE,
                !.memories = ability_result.memories]

\* _update_tasks_and_memory without the assignment of the status.
update_keeps_status(ctx, ability_result) ==
    [ctx EXCEPT !.cycle_count = @ + 1,
                !.prior_actions = Append(@, ability_result),
                !.enough_info = TRUE,
                !.memories = ability_result.memories]

\* _update_tasks_and_memory applied to the context of the current task.
update_tasks_and_memory(ctx, ability_result) ==
    [ctx EXCEPT !.cycle_count = @ + 1,
                !.prior_actions = Append(@, ability_result),
                !.status = "DONE",
                !.enough_info = TRUE,
                !.memories = ability_result.memories]

TaskContext == heap["task_ctx"]

SlotIds == 1..MaxAbilities

\* The slots of a set, in ascending (registration) order.
RECURSIVE InOrder(_)
InOrder(S) ==
    IF S = {} THEN <<>>
    ELSE LET m == CHOOSE x \in S : \A y \in S : x <= y
         IN <<m>> \o InOrder(S \ {m})

\* ------------------------------------------- template variables
\* The keys _make_template_kwargs_for_strategy fills in.
RuntimeKeys == {"os_info", "api_budget", "current_time"}

\* _make_template_kwargs_for_strategy: the runtime context, each value
\* named after the call that yields it.
make_template_kwargs_for_strategy ==
    [os_info |-> "get_os_info()",
     api_budget |-> "get_remaining_budget()",
     current_time |-> "strftime(%c)"]

\* The keys a caller supplies: the runtime keys, and cycle_count, a key
\* LatexCodeGenPrompt has a default for.
CallerKeys == RuntimeKeys \cup {"cycle_count"}

CallerValues == {"caller_a", "caller_b"}

\* The dictionaries a caller can pass as keyword arguments.
Kwargs == UNION {[S -> CallerValues] : S \in SUBSET CallerKeys}

\* The empty dictionary.
NoKwargs == [k \in {} |-> "none"]

\* d.update(e) with the entries d holds already kept as they are.
dict_update_keeps_existing(d, e) ==
    [k \in DOMAIN d \cup DOMAIN e |-> IF k \in DOMAIN d THEN d[k] ELSE e[k]]

\* d.update(e): the dictionary d is after the call.
dict_update(d, e) ==
    [k \in DOMAIN d \cup DOMAIN e |-> IF k \in DOMAIN e THEN e[k] ELSE d[k]]

\* The defaults of LatexCodeGenPrompt.get_template_kwargs; the integer 0
\* is written as a string.
LatexDefaults(task_objective) ==
    [task_objective |-> task_objective,
     cycle_count |-> "0",
     action_history |-> "",
     additional_info |-> "",
     user_input |-> "",
     acceptance_criteria |-> ""]

\* LatexCodeGenPrompt.get_template_kwargs.
get_template_kwargs(task_objective, kw) ==
    dict_update(LatexDefaults(task_objective), kw)

\* No template variables have been built.
NoPromptCall ==
    /\ prompt_site = "none"
    /\ kwargs = NoKwargs
    /\ template_kwargs = NoKwargs

\* ------------------------------------------------ SimpleTaskPilot
\* The providers a caller can pass in model_providers.
ModelProviderName == {"OPENAI", "OTHER"}

\* The LanguageModelConfiguration values of a models mapping.
LanguageModelConfigurations ==
    [model_name : {"GPT3", "GPT4"},
     provider_name : ModelProviderName,
     temperature : {"0.9"}]

\* SimpleTaskPilot.default_configuration.models.
SimpleDefaultModels ==
    [c \in LanguageModelClassification |->
        [model_name |-> IF c = "FAST_MODEL" THEN "GPT3" ELSE "GPT4",
         provider_name |-> "OPENAI",
         temperature |-> "0.9"]]

\* The models mappings a SimpleTaskPilot can be built with.
SimpleModels ==
    UNION {[S -> LanguageModelConfigurations] :
               S \in (SUBSET LanguageModelClassification) \ {{}}}

\* model_configuration after .dict() and del model_configuration["provider_name"].
without_provider_name(model_configuration) ==
    [k \in DOMAIN model_configuration \ {"provider_name"} |-> model_configuration[k]]

\* No response, no result.
NoResponse == [cls |-> "None", content |-> "None"]

\* What create_language_completion returns.
ProviderResponses ==
    [cls : {"LanguageModelProviderModelResponse"}, content : {"content_a", "content_b"}]

\* LanguageModelResponse.parse_obj(response.dict()).
parse_obj(response) == [cls |-> "LanguageModelResponse", content |-> response.content]

\* SimpleTaskPilot.__init__ has run and execute has not been called.
SimpleNotStarted ==
    /\ simple_pc = "constructed"
    /\ completion_calls = <<>>
    /\ simple_result = NoResponse
    /\ simple_exception = "none"

\* A SimpleTaskPilot of the default configuration.
SimpleDefault ==
    /\ simple_models = SimpleDefaultModels
    /\ simple_classification = "FAST_MODEL"
    /\ SimpleNotStarted

\* ------------------------------------------------------ factories
\* The most factory calls of a run.
MaxFactoryCalls == 2

PilotClasses == {"SuperTaskPilot", "SimpleTaskPilot"}

\* The default_configuration of each class as the class body makes it:
\* the three fields of it that the overrides in question assign.
default_configuration(cls) ==
    IF cls = "SuperTaskPilot"
    THEN [execution_nature |-> "AUTO",
          prompt_strategy |-> "NextAbility.default_configuration",
          models |-> "SuperTaskPilot.models"]
    ELSE [execution_nature |-> "SIMPLE",
          prompt_strategy |-> "SimplePrompt.default_configuration",
          models |-> "SimpleTaskPilot.models"]

\* The reference of the object cls.default_configuration names.
DefaultRef(cls) == <<cls, 0>>

\* config after the factories' "if x is not None: config.x = x" lines.
assign_overrides(cfg, x, m, p) ==
    [execution_nature |-> IF x # "None" THEN x ELSE cfg.execution_nature,
     prompt_strategy |-> IF p # "None" THEN p ELSE cfg.prompt_strategy,
     models |-> IF m # "None" THEN m ELSE cfg.models]

\* The arguments a factory call can be given for execution_nature, models
\* and prompt_strategy: None, or an override.
FactoryArguments ==
    [execution_nature : ExecutionNature \cup {"None"},
     models : {"None", "models_override"},
     prompt_strategy : {"None", "prompt_strategy_override"}]

NoOverrides ==
    [execution_nature |-> "None", models |-> "None", prompt_strategy |-> "None"]

\* No factory has been called.
NoFactoryCall ==
    /\ configurations = [r \in {DefaultRef(c) : c \in PilotClasses} |->
                            default_configuration(r[1])]
    /\ pilots = <<>>

\* ------------------------------------------------------- initial state
\* SuperTaskPilot.__init__ has run and execute has not been called.
NotStarted ==
    /\ pc = "constructed"
    /\ current_task = "None"
    /\ current_context = "engine_ctx"
    /\ heap = [c \in ContextIds |-> DefaultContext]
    /\ slots = [i \in SlotIds |-> IdleSlot]
    /\ task_queue = <<>>
    /\ completed_tasks = <<>>
    /\ exception = "none"
    /\ returned = "none"
    /\ cycles = 0
    /\ model_calls = 0
    /\ invoked = <<>>
    /\ started = <<>>

\* A SuperTaskPilot of the default configuration with an empty registry.
EngineDefault ==
    /\ execution_nature = "AUTO"
    /\ models = LanguageModelClassification
    /\ model_classification = "FAST_MODEL"
    /\ ability_registry = <<>>
    /\ NotStarted

\* __init__: the state of an engine after construction, for every
\* execution nature, every registry of at most MaxAbilities abilities, a
\* models mapping with both classifications (the default) or with
\* FAST_MODEL only (an override), and either classification declared by
\* the prompt strategy.  __init__ does not compare the two.
Init ==
    /\ execution_nature \in ExecutionNature
    /\ models \in {LanguageModelClassification, {"FAST_MODEL"}}
    /\ model_classification \in LanguageModelClassification
    /\ ability_registry \in {[i \in 1..n |-> i] : n \in 0..MaxAbilities}
    /\ NotStarted
    /\ NoPromptCall
    /\ SimpleDefault
    /\ NoFactoryCall

\* ------------------------------------------------------------ actions
\* execute, up to its loop.  status0 is the status of the task's context
\* (PENDING for a task made by Task.factory); how tells whether the caller
\* passed a context by keyword, positionally, or not at all; which is the
\* context passed.
execute(status0, how, which) ==
    /\ pc = "constructed"
    /\ current_task' = "task"
    /\ heap' = [heap EXCEPT !["task_ctx"].status = status0]
    /\ current_context' = IF how = "keyword" THEN which ELSE current_context
    /\ pc' = "loop"
    /\ UNCHANGED <<config, outside, slots, task_queue, completed_tasks, exception,
                   returned, cycles, model_calls, invoked, started>>

\* exec_abilities, up to its first suspension: the perform_ability calls
\* of FirstSlots are made and each is suspended in its model call.  With
\* no call to make it returns an empty list at once.  When the models
\* mapping has no entry for the strategy's classification, each call fails
\* in chat_with_model before it suspends, and the error leaves execute.
exec_abilities ==
    LET first == FirstSlots(execution_nature) IN
    /\ cycles' = cycles + 1
    /\ slots' = [i \in SlotIds |->
                    IF i \notin first THEN IdleSlot
                    ELSE IF models_has_classification
                         THEN StartedSlot(execution_nature, i)
                         ELSE UnconfiguredSlot(execution_nature, i)]
    /\ model_calls' = Cardinality(first)
    /\ started' = InOrder(first)
    /\ invoked' = <<>>
    /\ pc' = IF first = {} THEN "loop"
             ELSE IF models_has_classification THEN "exec" ELSE "raised"
    /\ exception' = IF first # {} /\ ~models_has_classification
                    THEN "KeyError" ELSE exception
    /\ UNCHANGED <<config, outside, current_task, current_context, heap, task_queue,
                   completed_tasks, returned>>

\* The while test of execute: another cycle, or the return of
\* self._current_context.
loop_test ==
    /\ pc = "loop"
    /\ cycles < MaxCycles
    /\ TaskContext.cycle_count < MaxCycleCount
    /\ IF LoopCondition(current_task)
       THEN exec_abilities
       ELSE /\ pc' = "returned"
            /\ returned' = current_context
            /\ UNCHANGED <<config, outside, current_task, current_context, heap, slots,
                           task_queue, completed_tasks, exception, cycles,
                           model_calls, invoked, started>>

\* An error raised inside the i-th perform_ability.  Nothing catches it:
\* it leaves perform_ability, exec_abilities (through the await, or through
\* gather, which hands on the first error at once) and execute.
raise(i, err) ==
    /\ slots' = [slots EXCEPT ![i].pc = "failed", ![i].error = err]
    /\ IF pc = "exec"
       THEN pc' = "raised" /\ exception' = err
       ELSE UNCHANGED <<pc, exception>>

\* The model call of the i-th perform_ability returns a parsed response
\* naming ability a; registry.perform(a) is called and suspends in the
\* ability body, or fails because the registry holds no such ability.
model_responds(i, a) ==
    /\ slots[i].pc = "model"
    /\ IF registry_has(a)
       THEN /\ slots' = [slots EXCEPT ![i].pc = "ability", ![i].next_ability = a]
            /\ invoked' = Append(invoked, a)
            /\ UNCHANGED <<pc, exception>>
       ELSE /\ raise(i, "UnknownAbilityError")
            /\ UNCHANGED invoked
    /\ UNCHANGED <<config, outside, current_task, current_context, heap, task_queue,
                   completed_tasks, returned, cycles, model_calls, started>>

\* The model call of the i-th perform_ability fails.
model_fails(i, err) ==
    /\ slots[i].pc = "model"
    /\ raise(i, err)
    /\ UNCHANGED <<config, outside, current_task, current_context, heap, task_queue,
                   completed_tasks, returned, cycles, model_calls, invoked, started>>

\* The ability body of the i-th perform_ability raises.
ability_fails(i) ==
    /\ slots[i].pc = "ability"
    /\ raise(i, "AbilityExecutionError")
    /\ UNCHANGED <<config, outside, current_task, current_context, heap, task_queue,
                   completed_tasks, returned, cycles, model_calls, invoked, started>>

\* The ability body of the i-th perform_ability returns: the rest of
\* perform_ability (_update_tasks_and_memory, the placement of the task)
\* runs, and exec_abilities goes on: with its next perform_ability call,
\* by returning to the loop of execute, or by waiting for the others.
ability_completes(i) ==
    LET action == AbilityAction(slots[i].next_ability)
        ctx == update_tasks_and_memory(TaskContext, action)
        nxt == NextSlot(execution_nature, i)
    IN
    /\ slots[i].pc = "ability"
    /\ heap' = [heap EXCEPT !["task_ctx"] = ctx]
    /\ IF ctx.status = "DONE"
       THEN /\ completed_tasks' = Append(completed_tasks, current_task)
            /\ UNCHANGED task_queue
       ELSE /\ task_queue' = Append(task_queue, current_task)
            /\ UNCHANGED completed_tasks
    /\ IF nxt # 0
       THEN /\ slots' = [slots EXCEPT ![i].pc = "done",
                                      ![nxt] = StartedSlot(execution_nature, nxt)]
            /\ model_calls' = model_calls + 1
            /\ started' = Append(started, nxt)
            /\ UNCHANGED pc
       ELSE /\ slots' = [slots EXCEPT ![i].pc = "done"]
            /\ pc' = IF pc = "exec" /\ \A j \in SlotIds \ {i} : ~Pending(slots[j])
                     THEN "loop" ELSE pc
            /\ UNCHANGED <<model_calls, started>>
    /\ UNCHANGED <<config, outside, current_task, current_context, exception, returned,
                   cycles, invoked>>

\* The caller's event loop is closed after execute raised: the
\* perform_ability coroutines gather left running are cancelled.
loop_shutdown ==
    /\ pc = "raised"
    /\ \E i \in SlotIds : Pending(slots[i])
    /\ slots' = [i \in SlotIds |->
                    IF Pending(slots[i]) THEN [slots[i] EXCEPT !.pc = "cancelled"]
                    ELSE slots[i]]
    /\ UNCHANGED <<config, outside, pc, current_task, current_context, heap, task_queue,
                   completed_tasks, exception, returned, cycles, model_calls,
                   invoked, started>>

Next ==
    \/ \E status0 \in {"PENDING", "DONE"}, how \in {"none", "keyword", "positional"},
          which \in {"caller_ctx", "task_ctx"} : execute(status0, how, which)
    \/ loop_test
    \/ \E i \in SlotIds, a \in dump_abilities \cup {UnknownAbility} : model_responds(i, a)
    \/ \E i \in SlotIds, err \in ModelErrors : model_fails(i, err)
    \/ \E i \in SlotIds : ability_fails(i)
    \/ \E i \in SlotIds : ability_completes(i)
    \/ loop_shutdown

Spec == Init /\ [][Next]_vars

\* ------------------------------- template variables and SimpleTaskPilot
\* SuperTaskPilot.chat_with_model, from _make_template_kwargs_for_strategy
\* to build_prompt, called with the keyword arguments kw.
super_chat_with_model(kw) ==
    /\ prompt_site = "none"
    /\ prompt_site' = "SuperTaskPilot.chat_with_model"
    /\ kwargs' = kw
    /\ template_kwargs' = dict_update(make_template_kwargs_for_strategy, kw)
    /\ UNCHANGED <<engine_vars, simple_vars, factory_vars>>

\* LatexCodeGenPrompt.build_prompt's call of get_template_kwargs, with the
\* keyword arguments kw of build_prompt.
build_prompt(task_objective, kw) ==
    /\ prompt_site = "none"
    /\ prompt_site' = "LatexCodeGenPrompt.build_prompt"
    /\ kwargs' = kw
    /\ template_kwargs' = get_template_kwargs(task_objective, kw)
    /\ UNCHANGED <<engine_vars, simple_vars, factory_vars>>

\* SimpleTaskPilot.execute up to its suspension: exec_task calls
\* chat_with_model with the keyword arguments kw (the task's own, updated
\* with those of execute), which looks up the model configuration and the
\* provider of the strategy's classification, builds the prompt and calls
\* create_language_completion.  The lookup fails with a KeyError when the
\* models mapping has no entry for the classification.
simple_execute(kw) ==
    /\ simple_pc = "constructed"
    /\ prompt_site = "none"
    /\ IF simple_classification \in DOMAIN simple_models
       THEN LET model_configuration == simple_models[simple_classification] IN
            /\ prompt_site' = "SimpleTaskPilot.chat_with_model"
            /\ kwargs' = kw
            /\ template_kwargs' = dict_update(make_template_kwargs_for_strategy, kw)
            /\ completion_calls' =
                   Append(completion_calls,
                          [provider |-> model_configuration.provider_name,
                           model_configuration |-> without_provider_name(model_configuration),
                           response |-> NoResponse,
                           error |-> "none"])
            /\ simple_pc' = "awaiting"
            /\ UNCHANGED simple_exception
       ELSE /\ simple_pc' = "raised"
            /\ simple_exception' = "KeyError"
            /\ UNCHANGED <<prompt_vars, completion_calls>>
    /\ UNCHANGED <<engine_vars, factory_vars, simple_models, simple_classification,
                   simple_result>>

\* create_language_completion returns: chat_with_model parses the response
\* and returns it through exec_task and execute.
provider_responds(response) ==
    /\ simple_pc = "awaiting"
    /\ completion_calls' = [completion_calls EXCEPT ![Len(completion_calls)].response = response]
    /\ simple_result' = parse_obj(response)
    /\ simple_pc' = "returned"
    /\ UNCHANGED <<engine_vars, prompt_vars, factory_vars, simple_models,
                   simple_classification, simple_exception>>

\* create_language_completion raises: nothing catches the error.
provider_fails(err) ==
    /\ simple_pc = "awaiting"
    /\ completion_calls' = [completion_calls EXCEPT ![Len(completion_calls)].error = err]
    /\ simple_exception' = err
    /\ simple_pc' = "raised"
    /\ UNCHANGED <<engine_vars, prompt_vars, factory_vars, simple_models,
                   simple_classification, simple_result>>

\* A SimpleTaskPilot built with any models mapping and any classification
\* declared by its prompt strategy; no template variables built yet.
PromptInit ==
    /\ EngineDefault
    /\ NoFactoryCall
    /\ NoPromptCall
    /\ simple_models \in SimpleModels
    /\ simple_classification \in LanguageModelClassification
    /\ SimpleNotStarted

PromptNext ==
    \/ \E kw \in Kwargs : super_chat_with_model(kw)
    \/ \E kw \in Kwargs : build_prompt("objective", kw)
    \/ \E kw \in Kwargs : simple_execute(kw)
    \/ \E response \in ProviderResponses : provider_responds(response)
    \/ \E err \in ModelErrors : provider_fails(err)

PromptSpec == PromptInit /\ [][PromptNext]_vars

\* ------------------------------------------------------------ factories
\* The pilot a factory call builds on the configuration at ref: __init__
\* keeps the reference and copies execution_nature.
Pilot(cls, ref, cfg, arguments) ==
    [cls |-> cls, configuration |-> ref,
     execution_nature |-> cfg.execution_nature, arguments |-> arguments]

\* SuperTaskPilot.factory: the overrides are assigned to a copy of
\* cls.default_configuration.
super_factory(arguments) ==
    LET ref == <<"SuperTaskPilot", Len(pilots) + 1>>
        cfg == assign_overrides(configurations[DefaultRef("SuperTaskPilot")],
                                arguments.execution_nature, arguments.models,
                                arguments.prompt_strategy)
    IN
    /\ Len(pilots) < MaxFactoryCalls
    /\ configurations' = [r \in DOMAIN configurations \cup {ref} |->
                             IF r = ref THEN cfg ELSE configurations[r]]
    /\ pilots' = Append(pilots, Pilot("SuperTaskPilot", ref, cfg, arguments))
    /\ UNCHANGED <<engine_vars, prompt_vars, simple_vars>>

\* SimpleTaskPilot.factory: the overrides are assigned to the object
\* cls.default_configuration names.
simple_factory(arguments) ==
    LET ref == DefaultRef("SimpleTaskPilot")
        cfg == assign_overrides(configurations[ref],
                                arguments.execution_nature, arguments.models,
                                arguments.prompt_strategy)
    IN
    /\ Len(pilots) < MaxFactoryCalls
    /\ configurations' = [configurations EXCEPT ![ref] = cfg]
    /\ pilots' = Append(pilots, Pilot("SimpleTaskPilot", ref, cfg, arguments))
    /\ UNCHANGED <<engine_vars, prompt_vars, simple_vars>>

\* The classes as their bodies leave them: no factory called yet.
FactoryInit ==
    /\ EngineDefault
    /\ NoPromptCall
    /\ SimpleDefault
    /\ NoFactoryCall

FactoryNext ==
    \/ \E arguments \in FactoryArguments : super_factory(arguments)
    \/ \E arguments \in FactoryArguments : simple_factory(arguments)

FactorySpec == FactoryInit /\ [][FactoryNext]_vars

\* -------------------------------------------------------------- claims
\* The latest exec_abilities call is over: it returned or raised.
CycleOver == cycles > 0 /\ pc \in {"loop", "returned", "raised"}

\* No model call and no ability has failed in this run.
NoFailure == exception = "none" /\ \A i \in SlotIds : slots[i].pc # "failed"

\* The errors of a failing model call or a failing ability body.
OperationalErrors == ModelErrors \cup {"AbilityExecutionError"}

\* The perform_ability calls of the cycle that ended in such an error.
FailedSlots == {i \in SlotIds : slots[i].error \in OperationalErrors}

\* C1: with a non-empty registry and no failing call, execute leaves its
\* loop after at most max_task_cycle_count cycles, and it leaves it with
\* the task status DONE or FAILED.
C1_ExecuteTerminatesWithinBudget ==
    (NumAbilities >= 1 /\ NoFailure) =>
        /\ cycles <= max_task_cycle_count
        /\ (pc = "returned" => TaskContext.status \in {"DONE", "FAILED"})

\* C2: the cycle_count of the task's context never exceeds
\* max_task_cycle_count.
C2_CycleCountWithinBudget ==
    TaskContext.cycle_count <= max_task_cycle_count

\* C3: the context execute returns is the task's context as the cycles of
\* the run wrote it: wherever the loop of execute may exit after
\* _update_tasks_and_memory has run, the context it is about to return
\* (self._current_context) holds the
\* cycle_count, prior_actions, memories and status of the task's context.
C3_ReturnsTaskContext ==
    /\ (pc = "returned" => heap[returned] = TaskContext)
    /\ (pc = "loop" /\ TaskContext.cycle_count > 0
            => heap[current_context] = TaskContext)

\* C4: a failing ability, an unparseable response or a provider error never
\* leaves execute as an exception; the run ends with a FAILED context.
C4_NoOperationalFailureEscapes ==
    \A i \in SlotIds :
        slots[i].error \in OperationalErrors
        => /\ pc # "raised"
           /\ (pc = "returned" => heap[returned].status = "FAILED")

\* C5: in SEQUENTIAL and PARALLEL mode, when one ability's model call or
\* invocation fails, no other registered ability of the cycle is left
\* uninvoked or abandoned: each is running or has completed.
C5_SiblingsSurviveFailure ==
    (execution_nature \in {"SEQUENTIAL", "PARALLEL"} /\ Cardinality(FailedSlots) = 1)
    => \A j \in (1..NumAbilities) \ FailedSlots :
           slots[j].pc \in {"model", "ability", "done"}

\* C6: in PARALLEL mode exec_abilities starts every perform_ability at
\* once and is not left, by return or by an error, while one of them is
\* still running.
C6_ParallelWaitsForAll ==
    execution_nature = "PARALLEL" =>
        /\ (cycles > 0 => started = InOrder(1..NumAbilities))
        /\ (CycleOver => \A i \in SlotIds : ~Pending(slots[i]))

\* C7: in AUTO mode every exec_abilities call makes exactly one model call,
\* with the schema of the whole catalogue, and hands at most one ability to
\* the registry.
C7_AutoOneModelCallOneAbility ==
    (execution_nature = "AUTO" /\ cycles > 0) =>
        /\ model_calls = 1
        /\ started = <<1>>
        /\ slots[1].schema = dump_abilities
        /\ Len(invoked) <= 1
        /\ \A i \in SlotIds \ {1} : slots[i].pc = "idle"

\* C7 happens: a second AUTO cycle over two abilities has invoked one.
C7_Witness ==
    /\ execution_nature = "AUTO"
    /\ NumAbilities = 2
    /\ cycles = 2
    /\ pc = "loop"
    /\ Len(invoked) = 1

\* C8: in SEQUENTIAL mode an exec_abilities call that is over has invoked
\* exactly the registered abilities, each once, in registration order.
C8_SequentialInvokesAllInOrder ==
    (execution_nature = "SEQUENTIAL" /\ CycleOver) => invoked = ability_registry

\* C9: in SEQUENTIAL and PARALLEL mode the ability handed to the registry
\* is the one whose schema the perform_ability call was given.
C9_InvokesTheGivenAbility ==
    execution_nature \in {"SEQUENTIAL", "PARALLEL"} =>
        \A i \in SlotIds :
            slots[i].pc \in {"ability", "done"} => slots[i].next_ability \in slots[i].schema

\* C10: in AUTO mode a ResponseParseError does not leave execute; the model
\* call is retried twice (three model calls) and the task then is FAILED.
C10_ParseErrorRetriedThenFailed ==
    (execution_nature = "AUTO" /\ slots[1].error = "ResponseParseError") =>
        /\ pc # "raised"
        /\ model_calls = 1 + 2
        /\ TaskContext.status = "FAILED"

\* C11: a response naming an unregistered ability does not leave execute:
\* the model is asked once more (two model calls), a second unknown name
\* makes the task FAILED, and the unknown name is never invoked.
C11_UnknownAbilityRepromptedOnce ==
    /\ \A k \in 1..Len(invoked) : invoked[k] # UnknownAbility
    /\ \A i \in SlotIds :
           slots[i].error = "UnknownAbilityError" =>
               /\ pc # "raised"
               /\ TaskContext.status = "FAILED"
               /\ (execution_nature = "AUTO" => model_calls = 2)

C13_OneAbilityAutoRunsOnce ==
    (execution_nature = "AUTO" /\ NumAbilities = 1 /\ NoFailure) =>
        /\ cycles <= 1
        /\ Len(TaskContext.prior_actions) <= 1
        /\ (pc = "returned" =>
                /\ Len(heap[returned].prior_actions) = 1
                /\ heap[returned].status = "DONE")

\* The perform_ability calls whose ability body returns in this step.
Completing == {i \in SlotIds : slots[i].pc = "ability" /\ slots'[i].pc = "done"}

\* C14: once _update_tasks_and_memory has left the status of the task's
\* context DONE or FAILED, no step changes the task's context.
C14_TerminalTaskImmutable ==
    [][(TaskContext.cycle_count > 0 /\ TaskContext.status \in {"DONE", "FAILED"})
          => heap'["task_ctx"] = heap["task_ctx"]]_vars

\* C15: every step either completes one ability invocation and raises
\* cycle_count by exactly 1, or completes none (a failing model call or
\* ability included) and leaves cycle_count as it is.
C15_CycleCountCountsCompletions ==
    [][/\ Cardinality(Completing) <= 1
       /\ heap'["task_ctx"].cycle_count
              = heap["task_ctx"].cycle_count + Cardinality(Completing)]_vars

\* C15 happens: two invocations have completed and a later call has failed.
C15_Witness ==
    /\ TaskContext.cycle_count = 2
    /\ \E i \in SlotIds : slots[i].pc = "failed"

\* C16: every step leaves prior_actions as it is or appends, at its end,
\* the action of the ability invocation that completes in that step.
C16_PriorActionsAppendOnly ==
    [][\/ heap'["task_ctx"].prior_actions = heap["task_ctx"].prior_actions
       \/ \E i \in Completing :
              heap'["task_ctx"].prior_actions
                  = Append(heap["task_ctx"].prior_actions,
                           AbilityAction(slots[i].next_ability))]_vars

\* C16 happens: in a PARALLEL cycle the second ability completed first and
\* the first ability after it, and the actions are recorded in that order.
C16_Witness ==
    /\ execution_nature = "PARALLEL"
    /\ cycles = 1
    /\ slots[1].schema = {1} /\ slots[1].next_ability = 1 /\ slots[1].pc = "done"
    /\ slots[2].schema = {2} /\ slots[2].next_ability = 2 /\ slots[2].pc = "done"
    /\ Len(TaskContext.prior_actions) = 2
    /\ TaskContext.prior_actions[1].ability_name = 2
    /\ TaskContext.prior_actions[2].ability_name = 1

\* C17: execute sets the task IN_PROGRESS before the first cycle and the
\* status stays IN_PROGRESS until an ability invocation has completed.
C17_InProgressWhileCyclesRun ==
    (pc \in {"loop", "exec"} /\ TaskContext.cycle_count = 0)
        => TaskContext.status = "IN_PROGRESS"

\* The number of entries of sequence q that are the task t.
RECURSIVE Occurrences(_, _)
Occurrences(q, t) ==
    IF q = <<>> THEN 0
    ELSE (IF Head(q) = t THEN 1 ELSE 0) + Occurrences(Tail(q), t)

\* C18: after a perform_ability the task is in the completed list when its
\* status is DONE and in the active queue otherwise, never in both, and a
\* task with a terminal status no longer is the engine's current task.
C18_TaskPlacedAndMovedOut ==
    TaskContext.cycle_count > 0 =>
        /\ (TaskContext.status = "DONE") = (Occurrences(completed_tasks, "task") > 0)
        /\ (TaskContext.status # "DONE") = (Occurrences(task_queue, "task") > 0)
        /\ (TaskContext.status \in {"DONE", "FAILED"} => current_task # "task")

\* C19: with execution nature SIMPLE exec_abilities gives no ability's
\* schema to a perform_ability call and invokes no ability.
C19_SimpleConsultsNoAbility ==
    execution_nature = "SIMPLE" =>
        /\ invoked = <<>>
        /\ \A i \in SlotIds : slots[i].schema = {}

\* C20: an engine that has been constructed has a models entry for the
\* classification its prompt strategy declares, so no model call of it
\* fails for the lack of that entry.
C20_MissingModelFailsAtConstruction ==
    \A i \in SlotIds : slots[i].error # "KeyError"

\* C22: a step in which an ability invocation completes leaves the task's
\* context with status DONE, enough_info true and exactly the memories of
\* the action of that invocation.
C22_UpdateSetsDoneAndReplacesMemories ==
    [][\A i \in Completing :
           /\ heap'["task_ctx"].status = "DONE"
           /\ heap'["task_ctx"].enough_info = TRUE
           /\ heap'["task_ctx"].memories
                  = AbilityAction(slots[i].next_ability).memories]_vars

\* C22 happens: a second, different ability has completed and the context
\* holds its memories only.
C22_Witness ==
    /\ Len(TaskContext.prior_actions) = 2
    /\ TaskContext.prior_actions[1].ability_name = 1
    /\ TaskContext.prior_actions[2].ability_name = 2
    /\ TaskContext.memories = AbilityAction(2).memories
    /\ TaskContext.status = "DONE"
    /\ TaskContext.enough_info

\* C25: cycle_count has grown by as much as prior_actions in every state,
\* under every interleaving, and when every cycle of a PARALLEL engine with
\* n abilities has succeeded both have grown by n per cycle.
C25_NoLostUpdate ==
    /\ TaskContext.cycle_count = Len(TaskContext.prior_actions)
    /\ (execution_nature = "PARALLEL" /\ pc = "loop" /\ NoFailure)
           => TaskContext.cycle_count = cycles * NumAbilities

\* C25 happens: two PARALLEL cycles of two abilities each have succeeded.
C25_Witness ==
    /\ execution_nature = "PARALLEL"
    /\ NumAbilities = 2
    /\ cycles = 2
    /\ pc = "loop"
    /\ NoFailure
    /\ TaskContext.cycle_count = 4
    /\ Len(TaskContext.prior_actions) = 4

\* C26: the engine's active task queue is empty in every state.
C26_TaskQueueEmpty ==
    task_queue = <<>>

\* C26 happens: the task went through perform_ability's placement twice
\* and was put on the completed list, not on the queue, both times.
C26_Witness ==
    /\ Len(completed_tasks) = 2
    /\ task_queue = <<>>
    /\ TaskContext.cycle_count = 2

\* C27: the completed list holds the task at most once.
C27_CompletedListHasNoDuplicate ==
    Occurrences(completed_tasks, "task") <= 1

\* C21: the template variables handed to build_prompt by chat_with_model,
\* of SuperTaskPilot and of SimpleTaskPilot, hold the runtime keys and the
\* caller's keys, each caller's key with the caller's value and each other
\* key with the runtime value; get_template_kwargs likewise gives each
\* caller's key the caller's value and each other key its default.
C21_CallerWinsOnCollision ==
    /\ prompt_site \in {"SuperTaskPilot.chat_with_model", "SimpleTaskPilot.chat_with_model"}
           => /\ DOMAIN template_kwargs = RuntimeKeys \cup DOMAIN kwargs
              /\ \A k \in DOMAIN template_kwargs :
                     template_kwargs[k] = IF k \in DOMAIN kwargs THEN kwargs[k]
                                          ELSE make_template_kwargs_for_strategy[k]
    /\ prompt_site = "LatexCodeGenPrompt.build_prompt"
           => /\ DOMAIN template_kwargs
                     = DOMAIN LatexDefaults("objective") \cup DOMAIN kwargs
              /\ \A k \in DOMAIN template_kwargs :
                     template_kwargs[k] = IF k \in DOMAIN kwargs THEN kwargs[k]
                                          ELSE LatexDefaults("objective")[k]

\* C21 happens: SimpleTaskPilot.chat_with_model got a caller's os_info and
\* no api_budget; build_prompt is given the caller's os_info and the
\* runtime api_budget.
C21_Witness ==
    /\ prompt_site = "SimpleTaskPilot.chat_with_model"
    /\ "os_info" \in DOMAIN kwargs
    /\ "api_budget" \notin DOMAIN kwargs
    /\ template_kwargs["os_info"] = "caller_a"
    /\ template_kwargs["api_budget"] = make_template_kwargs_for_strategy["api_budget"]

\* C23: the object each class's default_configuration names keeps the
\* values the class body gave it, and every pilot built by a factory call
\* without overrides has those values as its configuration and as its
\* execution nature, whatever factory calls were made before or after.
C23_FactoryOverridesDoNotLeak ==
    /\ \A c \in PilotClasses :
           configurations[DefaultRef(c)] = default_configuration(c)
    /\ \A i \in 1..Len(pilots) :
           pilots[i].arguments = NoOverrides
               => /\ configurations[pilots[i].configuration]
                         = default_configuration(pilots[i].cls)
                  /\ pilots[i].execution_nature
                         = default_configuration(pilots[i].cls).execution_nature

\* C24: when SimpleTaskPilot.execute has ended it has made exactly one
\* create_language_completion call, on the provider of the classification
\* its prompt strategy declares, with the model configuration of that
\* classification less provider_name; it has returned that call's parsed
\* response, or the error of that call has left it.
C24_SimpleExecuteOneCompletionCall ==
    simple_pc \in {"returned", "raised"} =>
        /\ Len(completion_calls) = 1
        /\ completion_calls[1].provider
               = simple_models[simple_classification].provider_name
        /\ completion_calls[1].model_configuration
               = without_provider_name(simple_models[simple_classification])
        /\ "provider_name" \notin DOMAIN completion_calls[1].model_configuration
        /\ simple_pc = "returned"
               => /\ simple_result = parse_obj(completion_calls[1].response)
                  /\ simple_exception = "none"
        /\ simple_pc = "raised"
               => /\ simple_exception = completion_calls[1].error
                  /\ simple_exception \in ModelErrors

====
